---------------------------- MODULE Spec2Model ----------------------------
(***************************************************************************)
(* Verification model of the pricechartingtool data-transformation         *)
(* scripts:                                                                *)
(*                                                                         *)
(*   misc/EphemerisGeneration/cycleHuntingGeneric/                         *)
(*       makeFilledMasterEphemeris_2p.py   (longitude unwrap / combine)    *)
(*   misc/DataFormatting/convertDailyToWeekly.py  (weekly aggregator)      *)
(*                                                                         *)
(* Longitudes and prices are modelled in whole units (integers).  A cell   *)
(* of the ephemeris spreadsheet is the number its text denotes: Python's   *)
(* float(text) and "{}".format(value) round-trip a value exactly, so a     *)
(* derived cell holds the value that was computed.  A Python None is the   *)
(* empty sequence << >>, a present value v is << v >>.  Python's 0-based   *)
(* column index c is index c + 1 of a TLA+ sequence.                       *)
(***************************************************************************)
EXTENDS Integers, Sequences, FiniteSets, TLC

VARIABLES
    \* ---- makeFilledMasterEphemeris_2p.py, module level ----
    enginePc,            \* "read" | "calc" | "done"
    engineLine,          \* the read loop's line counter i
    headerLine,          \* sequence of column names (the comma-joined text)
    listOfDataValues,    \* list of rows, each row a list of cells
    callIndex,           \* next transform call site to execute
    outputFileLines,     \* lines written to outputFilename (<< >>: not written)
    \* ---- doCalculationsForColumn's loop over one long column ----
    prevCalculatedValue, \* None (<< >>) or << value of the previous row >>
    planetLongitude,     \* the raw cell read at the current row
    currCalculatedValue, \* the value appended at the current row
    trueMotion,          \* the motion that produced the current raw cell
    lastOutput,          \* None or << value appended at the row before >>
    loopPc,              \* "row" | "subtract" | "add" | "append": the place
                         \* inside the loop body when it runs step by step
    \* ---- convertDailyToWeekly.py, module level ----
    weeklyPc,            \* "read" | "failed" | "done"
    inputLines,          \* the lines of the input file consumed so far
    lineCounter,         \* the read loop's line counter i
    currentWeek,         \* the currentWeek* variables, one field each
    convertedLines,      \* lines of the destination file
    exitMessage,         \* the parts of the printed "Error: ..." message
    outputFile           \* lines written to outputFile (<< >>: not written)

engineVars == <<enginePc, engineLine, headerLine, listOfDataValues,
                callIndex, outputFileLines>>
streamVars == <<prevCalculatedValue, planetLongitude, currCalculatedValue,
                trueMotion, lastOutput, loopPc>>
weeklyVars == <<weeklyPc, inputLines, lineCounter, currentWeek,
                convertedLines, exitMessage, outputFile>>
vars == <<engineVars, streamVars, weeklyVars>>

-----------------------------------------------------------------------------
(* Bounds of the model. *)

\* Most data rows an input spreadsheet holds.
MaxLen == 3

\* Raw longitudes that occur in a source cell: values in [0, 360).
Longitudes == {0, 20, 340, 350}

\* Full turns, up or down, that the long column may accumulate.
MaxTurns == 2

\* First cells of the long column.
StartLongitudes == {0, 2, 8, 350, 355}

\* True daily motions of a smoothly moving body: magnitude under 30.
Motions == {-29, -13, -1, 0, 5, 6, 7, 29}

\* Raw cells that follow a discontinuity (a gap in the data).
JumpLongitudes == {0, 30, 180, 330, 359}

-----------------------------------------------------------------------------
(* makeFilledMasterEphemeris_2p.py: constants *)

linesToSkip == 1

\* The header line of the generic ephemeris spreadsheet (its column names).
InputHeader == <<"Timestamp", "G.Moon.Longitude", "G.Mercury.Longitude">>

\* Column (TLA+ index) of each planet's longitude in a data row.
planetGeocentricLongitudeColumn ==
    [Moon |-> 2, Mercury |-> 3]

\* maximumIncrement of doCalculationsForColumn
maximumIncrement == 330

\* maximumIncrement of doCalculationsForColumns
maximumIncrementColumns == 330

\* One full circle, the amount of every adjustment.
Circle == 360

\* A cell is the number its text denotes; NotANumber stands for every text
\* that float() rejects with a ValueError.
NotANumber == 99999

\* float(listOfDataValues[i][column]) returns a number: the row has a cell
\* at the index (no IndexError) and the cell's text is a number (no
\* ValueError).
CellReads(row, column) ==
    column <= Len(row) /\ row[column] # NotANumber

-----------------------------------------------------------------------------
(* doCalculationsForColumn *)

RECURSIVE SubtractWhileWrongStep(_, _)
\* Faulty variant: steps by the threshold instead of a full circle.
SubtractWhileWrongStep(prev, curr) ==
    IF prev < curr - maximumIncrement
    THEN SubtractWhileWrongStep(prev, curr - maximumIncrement)
    ELSE curr

RECURSIVE SubtractWhile(_, _)
\* while prevCalculatedValue < currCalculatedValue - maximumIncrement:
\*     currCalculatedValue -= 360.0
SubtractWhile(prev, curr) ==
    IF prev < curr - maximumIncrement
    THEN SubtractWhile(prev, curr - Circle)
    ELSE curr

\* Faulty variant: a single conditional in place of the while loop.
AddOnce(prev, curr) ==
    IF prev >= curr + maximumIncrement
    THEN curr + Circle
    ELSE curr

RECURSIVE AddWhileDoubleStep(_, _)
\* Faulty variant: every iteration adds two full circles.
AddWhileDoubleStep(prev, curr) ==
    IF prev >= curr + maximumIncrement
    THEN AddWhileDoubleStep(prev, curr + 2 * Circle)
    ELSE curr

RECURSIVE AddWhile(_, _)
\* while prevCalculatedValue >= currCalculatedValue + maximumIncrement:
\*     currCalculatedValue += 360.0
AddWhile(prev, curr) ==
    IF prev >= curr + maximumIncrement
    THEN AddWhile(prev, curr + Circle)
    ELSE curr

\* Faulty variant: the branch that adds full circles is missing.
AdjustColumnSubtractOnly(prev, curr) ==
    IF prev = << >>
    THEN curr
    ELSE IF prev[1] < curr - maximumIncrement
         THEN SubtractWhile(prev[1], curr)
         ELSE curr

\* Faulty variant: the add branch tests > where the code tests >=.
AdjustColumnStrictAdd(prev, curr) ==
    IF prev = << >>
    THEN curr
    ELSE IF prev[1] < curr - maximumIncrement
         THEN SubtractWhile(prev[1], curr)
         ELSE IF prev[1] > curr + maximumIncrement
              THEN AddWhile(prev[1], curr)
              ELSE curr

\* Faulty variant: the first value is moved up a full circle.
AdjustColumnFirstRaised(prev, curr) ==
    IF prev = << >>
    THEN curr + Circle
    ELSE IF prev[1] < curr - maximumIncrement
         THEN SubtractWhile(prev[1], curr)
         ELSE IF prev[1] >= curr + maximumIncrement
              THEN AddWhile(prev[1], curr)
              ELSE curr

\* The if / elif / elif / else chain that adjusts the current value.
AdjustColumn(prev, curr) ==
    IF prev = << >>
    THEN curr
    ELSE IF prev[1] < curr - maximumIncrement
         THEN SubtractWhile(prev[1], curr)
         ELSE IF prev[1] >= curr + maximumIncrement
              THEN AddWhile(prev[1], curr)
              ELSE curr

RECURSIVE ColumnLoopInPlace(_, _, _, _)
\* Faulty variant: the result is stored in the source cell, not appended.
ColumnLoopInPlace(rows, planetColumn, i, prev) ==
    IF i > Len(rows)
    THEN rows
    ELSE IF ~ CellReads(rows[i], planetColumn)
         THEN rows
         ELSE LET raw  == rows[i][planetColumn]
                  curr == AdjustColumn(prev, raw)
              IN  ColumnLoopInPlace(
                      [rows EXCEPT ![i] = [@ EXCEPT ![planetColumn] = curr]],
                      planetColumn, i + 1, <<curr>>)

RECURSIVE ColumnLoop(_, _, _, _)
\* for i in range(len(listOfDataValues)): ... append ... prev = curr
\* An exception raised by the read of a cell ends the loop: the rows before
\* that row keep their new cell, the row and those after it get none.
ColumnLoop(rows, planetColumn, i, prev) ==
    IF i > Len(rows)
    THEN rows
    ELSE IF ~ CellReads(rows[i], planetColumn)
         THEN rows
         ELSE LET raw  == rows[i][planetColumn]
                  curr == AdjustColumn(prev, raw)
              IN  ColumnLoop([rows EXCEPT ![i] = Append(@, curr)],
                             planetColumn, i + 1, <<curr>>)

\* The call raises an IndexError or a ValueError, which nothing catches.
ColumnRaises(rows, planetColumn) ==
    \E i \in 1..Len(rows) : ~ CellReads(rows[i], planetColumn)

doCalculationsForColumn(rows, planetColumn) ==
    ColumnLoop(rows, planetColumn, 1, << >>)

-----------------------------------------------------------------------------
(* doCalculationsForColumns *)

\* Faulty variant: a single conditional in place of the while loop.
SubtractOnceColumns(prev, curr) ==
    IF prev < curr - maximumIncrementColumns
    THEN curr - Circle
    ELSE curr

RECURSIVE SubtractWhileColumns(_, _)
\* while prevCalculatedValue < currCalculatedValue - maximumIncrement:
\*     currCalculatedValue -= 360.0
SubtractWhileColumns(prev, curr) ==
    IF prev < curr - maximumIncrementColumns
    THEN SubtractWhileColumns(prev, curr - Circle)
    ELSE curr

RECURSIVE AddWhileColumnsStrict(_, _)
\* Faulty variant: the loop tests > where the code tests >=.
AddWhileColumnsStrict(prev, curr) ==
    IF prev > curr + maximumIncrementColumns
    THEN AddWhileColumnsStrict(prev, curr + Circle)
    ELSE curr

RECURSIVE AddWhileColumns(_, _)
\* while prevCalculatedValue >= currCalculatedValue + maximumIncrement:
\*     currCalculatedValue += 360.0
AddWhileColumns(prev, curr) ==
    IF prev >= curr + maximumIncrementColumns
    THEN AddWhileColumns(prev, curr + Circle)
    ELSE curr

\* Faulty variant: the branch that subtracts full circles is missing.
AdjustColumnsAddOnly(prev, curr) ==
    IF prev = << >>
    THEN curr
    ELSE IF prev[1] >= curr + maximumIncrementColumns
         THEN AddWhileColumns(prev[1], curr)
         ELSE curr

\* The if / elif / elif / else chain that adjusts the current value.
AdjustColumns(prev, curr) ==
    IF prev = << >>
    THEN curr
    ELSE IF prev[1] < curr - maximumIncrementColumns
         THEN SubtractWhileColumns(prev[1], curr)
         ELSE IF prev[1] >= curr + maximumIncrementColumns
              THEN AddWhileColumns(prev[1], curr)
              ELSE curr

\* currCalculatedValue = fasterPlanetLongitude + 360 - slowerPlanetLongitude
SynodicValue(fasterPlanetLongitude, slowerPlanetLongitude) ==
    fasterPlanetLongitude + 360 - slowerPlanetLongitude

RECURSIVE ColumnsLoop(_, _, _, _, _)
\* The loop of doCalculationsForColumns; an exception ends it likewise.
ColumnsLoop(rows, fasterPlanetColumn, slowerPlanetColumn, i, prev) ==
    IF i > Len(rows)
    THEN rows
    ELSE IF ~ (/\ CellReads(rows[i], fasterPlanetColumn)
               /\ CellReads(rows[i], slowerPlanetColumn))
         THEN rows
         ELSE LET raw  == SynodicValue(rows[i][fasterPlanetColumn],
                                       rows[i][slowerPlanetColumn])
                  curr == AdjustColumns(prev, raw)
              IN  ColumnsLoop([rows EXCEPT ![i] = Append(@, curr)],
                              fasterPlanetColumn, slowerPlanetColumn,
                              i + 1, <<curr>>)

\* The call raises an IndexError or a ValueError, which nothing catches.
ColumnsRaises(rows, fasterPlanetColumn, slowerPlanetColumn) ==
    \E i \in 1..Len(rows) :
        \/ ~ CellReads(rows[i], fasterPlanetColumn)
        \/ ~ CellReads(rows[i], slowerPlanetColumn)

doCalculationsForColumns(rows, fasterPlanetColumn, slowerPlanetColumn) ==
    ColumnsLoop(rows, fasterPlanetColumn, slowerPlanetColumn, 1, << >>)

-----------------------------------------------------------------------------
(* makeFilledMasterEphemeris_2p.py: the script *)

\* The transform call sites, in the order the script executes them.
CallSites ==
    << [columnName |-> "G.Moon", kind |-> "column",
        planetColumn |-> planetGeocentricLongitudeColumn.Moon],
       [columnName |-> "G.Mercury", kind |-> "column",
        planetColumn |-> planetGeocentricLongitudeColumn.Mercury],
       [columnName |-> "G.Moon/G.Mercury", kind |-> "columns",
        fasterPlanetColumn |-> planetGeocentricLongitudeColumn.Moon,
        slowerPlanetColumn |-> planetGeocentricLongitudeColumn.Mercury] >>

\* A data line of the input file, split at its commas.
DataLines ==
    { <<"ts", moon, mercury>> : moon \in Longitudes, mercury \in Longitudes }

\* Data lines that lack source cells or hold a cell that is no number.
DefectiveLines ==
    { <<"ts">>, <<"ts", 340>>, <<"ts", 20, NotANumber>> }

\* convertDailyToWeekly.py: the accumulator before any line is read.
InitialWeek ==
    [HasValues |-> FALSE, DateStr |-> << >>,
     Open |-> -1, High |-> -1, Low |-> -1, Close |-> -1,
     Volume |-> -1, OpenInt |-> -1,
     IsoYearNumber |-> -1, IsoWeekNumber |-> -1]

WeeklyIdle ==
    /\ weeklyPc = "idle"
    /\ inputLines = << >>
    /\ lineCounter = 0
    /\ currentWeek = InitialWeek
    /\ convertedLines = << >>
    /\ exitMessage = << >>
    /\ outputFile = << >>

StreamIdle ==
    /\ prevCalculatedValue = << >>
    /\ planetLongitude = << >>
    /\ currCalculatedValue = << >>
    /\ trueMotion = << >>
    /\ lastOutput = << >>
    /\ loopPc = "row"

EngineInit ==
    /\ enginePc = "read"
    /\ engineLine = 0
    /\ headerLine = << >>
    /\ listOfDataValues = << >>
    /\ callIndex = 1
    /\ outputFileLines = << >>
    /\ StreamIdle
    /\ WeeklyIdle

\* Read loop, elif i < linesToSkip: the header line.
ReadHeaderLine ==
    /\ enginePc = "read"
    /\ engineLine < linesToSkip
    /\ headerLine' = InputHeader
    /\ engineLine' = engineLine + 1
    /\ UNCHANGED <<enginePc, listOfDataValues, callIndex, outputFileLines>>
    /\ UNCHANGED <<streamVars, weeklyVars>>

\* Read loop, else: a normal data line.
ReadDataLine(dataValues) ==
    /\ enginePc = "read"
    /\ engineLine >= linesToSkip
    /\ Len(listOfDataValues) < MaxLen
    /\ listOfDataValues' = Append(listOfDataValues, dataValues)
    /\ engineLine' = engineLine + 1
    /\ UNCHANGED <<enginePc, headerLine, callIndex, outputFileLines>>
    /\ UNCHANGED <<streamVars, weeklyVars>>

\* The input file is exhausted.
EndOfInput ==
    /\ enginePc = "read"
    /\ enginePc' = "calc"
    /\ UNCHANGED <<engineLine, headerLine, listOfDataValues, callIndex,
                   outputFileLines>>
    /\ UNCHANGED <<streamVars, weeklyVars>>

\* A single-planet call site: headerLine += "," + columnName, then
\* listOfDataValues = doCalculationsForColumn(listOfDataValues, planetColumn)
CalcColumn ==
    /\ enginePc = "calc"
    /\ callIndex <= Len(CallSites)
    /\ CallSites[callIndex].kind = "column"
    /\ headerLine' = Append(headerLine, CallSites[callIndex].columnName)
    /\ listOfDataValues' =
           doCalculationsForColumn(listOfDataValues,
                                   CallSites[callIndex].planetColumn)
    /\ IF ColumnRaises(listOfDataValues, CallSites[callIndex].planetColumn)
       THEN enginePc' = "crashed" /\ callIndex' = callIndex
       ELSE enginePc' = enginePc /\ callIndex' = callIndex + 1
    /\ UNCHANGED <<engineLine, outputFileLines>>
    /\ UNCHANGED <<streamVars, weeklyVars>>

\* Faulty variant: the call site forgets to extend the header line.
CalcColumnsUnnamed ==
    /\ enginePc = "calc"
    /\ callIndex <= Len(CallSites)
    /\ CallSites[callIndex].kind = "columns"
    /\ listOfDataValues' =
           doCalculationsForColumns(listOfDataValues,
                                    CallSites[callIndex].fasterPlanetColumn,
                                    CallSites[callIndex].slowerPlanetColumn)
    /\ callIndex' = callIndex + 1
    /\ UNCHANGED <<enginePc, engineLine, headerLine, outputFileLines>>
    /\ UNCHANGED <<streamVars, weeklyVars>>

\* A two-planet call site.
CalcColumns ==
    /\ enginePc = "calc"
    /\ callIndex <= Len(CallSites)
    /\ CallSites[callIndex].kind = "columns"
    /\ headerLine' = Append(headerLine, CallSites[callIndex].columnName)
    /\ listOfDataValues' =
           doCalculationsForColumns(listOfDataValues,
                                    CallSites[callIndex].fasterPlanetColumn,
                                    CallSites[callIndex].slowerPlanetColumn)
    /\ IF ColumnsRaises(listOfDataValues,
                        CallSites[callIndex].fasterPlanetColumn,
                        CallSites[callIndex].slowerPlanetColumn)
       THEN enginePc' = "crashed" /\ callIndex' = callIndex
       ELSE enginePc' = enginePc /\ callIndex' = callIndex + 1
    /\ UNCHANGED <<engineLine, outputFileLines>>
    /\ UNCHANGED <<streamVars, weeklyVars>>

\* Write to output file: the header line, then one line per row.
WriteOutput ==
    /\ enginePc = "calc"
    /\ callIndex > Len(CallSites)
    /\ outputFileLines' = <<headerLine>> \o listOfDataValues
    /\ enginePc' = "done"
    /\ UNCHANGED <<engineLine, headerLine, listOfDataValues, callIndex>>
    /\ UNCHANGED <<streamVars, weeklyVars>>

EngineNext ==
    \/ ReadHeaderLine
    \/ \E dataValues \in DataLines : ReadDataLine(dataValues)
    \/ EndOfInput
    \/ CalcColumn
    \/ CalcColumns
    \/ WriteOutput

\* The longitude engine, from start-up to the written output file, over
\* input files whose data lines hold a number in every source column.
Spec == EngineInit /\ [][EngineNext]_vars

EngineNextAnyInput ==
    \/ ReadHeaderLine
    \/ \E dataValues \in DataLines \cup DefectiveLines :
           ReadDataLine(dataValues)
    \/ EndOfInput
    \/ CalcColumn
    \/ CalcColumns
    \/ WriteOutput

\* The longitude engine over input files that may also hold data lines
\* with missing cells or cells that are no numbers.
SpecAnyInput == EngineInit /\ [][EngineNextAnyInput]_vars

-----------------------------------------------------------------------------
(* doCalculationsForColumn, row by row over one long column.              *)
(* Each step is one iteration of the for loop: it reads the row's cell,   *)
(* adjusts it against prevCalculatedValue, appends the result and saves   *)
(* it for the next iteration.  The cell of a row is drawn when the loop   *)
(* reaches the row.                                                       *)

EngineIdle ==
    /\ enginePc = "idle"
    /\ engineLine = 0
    /\ headerLine = << >>
    /\ listOfDataValues = << >>
    /\ callIndex = 1
    /\ outputFileLines = << >>

StreamInit ==
    /\ EngineIdle
    /\ StreamIdle
    /\ WeeklyIdle

\* One iteration of the for loop on a row whose cell holds `raw`.
LoopIteration(raw, motion) ==
    /\ planetLongitude' = <<raw>>
    /\ currCalculatedValue' = <<AdjustColumn(prevCalculatedValue, raw)>>
    /\ prevCalculatedValue' = currCalculatedValue'
    /\ lastOutput' = prevCalculatedValue
    /\ trueMotion' = motion
    /\ UNCHANGED loopPc
    /\ UNCHANGED <<engineVars, weeklyVars>>

InRange ==
    \/ prevCalculatedValue = << >>
    \/ /\ prevCalculatedValue[1] <= MaxTurns * Circle
       /\ prevCalculatedValue[1] >= - MaxTurns * Circle

\* i = 0: the first row of the column.
FirstRow(raw) ==
    /\ prevCalculatedValue = << >>
    /\ LoopIteration(raw, << >>)

\* A later row, the body having moved by `motion` since the row before.
SmoothRow(motion) ==
    /\ prevCalculatedValue # << >>
    /\ InRange
    /\ LoopIteration((planetLongitude[1] + motion) % Circle, <<motion>>)

\* A later row holding any longitude at all.
JumpRow(raw) ==
    /\ prevCalculatedValue # << >>
    /\ InRange
    /\ LoopIteration(raw, << >>)

StreamNext ==
    \/ \E raw \in StartLongitudes : FirstRow(raw)
    \/ \E motion \in Motions : SmoothRow(motion)
    \/ \E raw \in JumpLongitudes : JumpRow(raw)

\* doCalculationsForColumn over a column of any length.
SpecColumnStream == StreamInit /\ [][StreamNext]_vars

-----------------------------------------------------------------------------
(* doCalculationsForColumn's loop body, one while-loop iteration per step. *)
(* The values are Python floats (IEEE 754 doubles).  On the integers the   *)
(* other specifications use, their arithmetic is exact.  From 2^63 on the  *)
(* doubles are 2048 apart, so adding or subtracting 330 or 360 rounds back *)
(* to the value itself.                                                    *)

\* The double 2^63, the number the cell text "9223372036854775808" denotes.
\* TLC's integers end at 2^31 - 1, the value that stands for it here.
TwoTo63 == 2147483647

\* x + y in double arithmetic, for y of magnitude 330 or 360.
FloatSum(x, y) == IF x = TwoTo63 THEN TwoTo63 ELSE x + y

\* Cells of the column: longitudes, values beyond a full circle, and 2^63.
StepCells == {0, 180, 359, 725, 1090, TwoTo63}

\* for i in range(...): read the cell, then the if / elif chain that
\* chooses between the two while loops.
BeginRow(raw) ==
    /\ loopPc = "row"
    /\ IF prevCalculatedValue = << >> THEN TRUE ELSE InRange
    /\ planetLongitude' = <<raw>>
    /\ currCalculatedValue' = <<raw>>
    /\ loopPc' =
           IF prevCalculatedValue = << >>
           THEN "append"
           ELSE IF prevCalculatedValue[1] < FloatSum(raw, - maximumIncrement)
           THEN "subtract"
           ELSE IF prevCalculatedValue[1] >= FloatSum(raw, maximumIncrement)
           THEN "add"
           ELSE "append"
    /\ UNCHANGED <<prevCalculatedValue, trueMotion, lastOutput>>
    /\ UNCHANGED <<engineVars, weeklyVars>>

\* while prevCalculatedValue < currCalculatedValue - maximumIncrement
SubtractTest ==
    prevCalculatedValue[1]
        < FloatSum(currCalculatedValue[1], - maximumIncrement)

\* currCalculatedValue -= 360.0
SubtractIteration ==
    /\ loopPc = "subtract"
    /\ SubtractTest
    /\ currCalculatedValue' = <<FloatSum(currCalculatedValue[1], - Circle)>>
    /\ UNCHANGED <<prevCalculatedValue, planetLongitude, trueMotion,
                   lastOutput, loopPc>>
    /\ UNCHANGED <<engineVars, weeklyVars>>

SubtractExit ==
    /\ loopPc = "subtract"
    /\ ~ SubtractTest
    /\ loopPc' = "append"
    /\ UNCHANGED <<prevCalculatedValue, planetLongitude,
                   currCalculatedValue, trueMotion, lastOutput>>
    /\ UNCHANGED <<engineVars, weeklyVars>>

\* while prevCalculatedValue >= currCalculatedValue + maximumIncrement
AddTest ==
    prevCalculatedValue[1]
        >= FloatSum(currCalculatedValue[1], maximumIncrement)

\* currCalculatedValue += 360.0
AddIteration ==
    /\ loopPc = "add"
    /\ AddTest
    /\ currCalculatedValue' = <<FloatSum(currCalculatedValue[1], Circle)>>
    /\ UNCHANGED <<prevCalculatedValue, planetLongitude, trueMotion,
                   lastOutput, loopPc>>
    /\ UNCHANGED <<engineVars, weeklyVars>>

AddExit ==
    /\ loopPc = "add"
    /\ ~ AddTest
    /\ loopPc' = "append"
    /\ UNCHANGED <<prevCalculatedValue, planetLongitude,
                   currCalculatedValue, trueMotion, lastOutput>>
    /\ UNCHANGED <<engineVars, weeklyVars>>

\* Store the result and save it for the next iteration.
AppendRow ==
    /\ loopPc = "append"
    /\ lastOutput' = prevCalculatedValue
    /\ prevCalculatedValue' = currCalculatedValue
    /\ loopPc' = "row"
    /\ UNCHANGED <<planetLongitude, currCalculatedValue, trueMotion>>
    /\ UNCHANGED <<engineVars, weeklyVars>>

LoopStepsNext ==
    \/ \E raw \in StepCells : BeginRow(raw)
    \/ SubtractIteration
    \/ SubtractExit
    \/ AddIteration
    \/ AddExit
    \/ AppendRow

\* The loop body step by step; the interpreter keeps taking steps.
SpecLoopSteps ==
    StreamInit /\ [][LoopStepsNext]_vars /\ WF_vars(LoopStepsNext)

SmoothNext ==
    \/ \E raw \in StartLongitudes : FirstRow(raw)
    \/ \E motion \in Motions : SmoothRow(motion)

\* doCalculationsForColumn over a column of a smoothly moving body: every
\* row after the first follows the row before it by a true daily motion.
SpecSmoothColumn == StreamInit /\ [][SmoothNext]_vars

-----------------------------------------------------------------------------
(* convertDailyToWeekly.py: input lines                                   *)
(* A line is the list of its comma-separated fields; the blank line has   *)
(* none.  The date field is its text, one character per element; every    *)
(* other field is the number its text denotes.                            *)

\* Most lines the input file holds, the header line included.
MaxLines == 4

weeklyLinesToSkip == 1

numFieldsExpected == 7

BlankLine == << >>

\* 12/26/2008 (Fri), 12/29/2008 (Mon), 01/02/2009 (Fri), 01/05/2009 (Mon)
Dates ==
    { <<"1","2","/","2","6","/","2","0","0","8">>,
      <<"1","2","/","2","9","/","2","0","0","8">>,
      <<"0","1","/","0","2","/","2","0","0","9">>,
      <<"0","1","/","0","5","/","2","0","0","9">> }

\* open, high, low, close, volume, openInterest of a daily bar.  The last
\* bar opens above its high and closes below its low.
Bars ==
    { <<10, 12, 9, 11, 100, 7>>,
      <<13, 15, 12, 14, 250, 9>>,
      <<9, 10, 8, 9, 150, 8>>,
      <<16, 12, 9, 7, 300, 5>> }

PriceBarLines == { <<d>> \o b : d \in Dates, b \in Bars }

\* The usual header line of a daily file: "Date","Open",...
HeaderText ==
    << <<"\"","D","a","t","e","\"">>, "Open", "High", "Low", "Close",
       "Volume", "OpenInt" >>

\* A line with six fields, and a line whose date is written 1/5/2009.
ShortLine == << <<"0","1","/","0","5","/","2","0","0","9">>,
                10, 12, 9, 11, 100 >>
ShortDateLine == << <<"1","/","5","/","2","0","0","9">>,
                    10, 12, 9, 11, 100, 7 >>

\* The lines that may stand at a position of the input file.
LinesAt(position) ==
    IF position = 0
    THEN {HeaderText, BlankLine}
    ELSE PriceBarLines \cup {BlankLine, HeaderText, ShortLine, ShortDateLine}

-----------------------------------------------------------------------------
(* datetime.date(year, month, day).isocalendar() *)

DigitValue ==
    [c \in {"0","1","2","3","4","5","6","7","8","9"} |->
        CASE c = "0" -> 0 [] c = "1" -> 1 [] c = "2" -> 2 [] c = "3" -> 3
          [] c = "4" -> 4 [] c = "5" -> 5 [] c = "6" -> 6 [] c = "7" -> 7
          [] c = "8" -> 8 [] c = "9" -> 9]

\* month = int(dateStr[0:2]); day = int(dateStr[3:5]); year = int(dateStr[6:10])
ParseDate(dateStr) ==
    [month |-> 10 * DigitValue[dateStr[1]] + DigitValue[dateStr[2]],
     day   |-> 10 * DigitValue[dateStr[4]] + DigitValue[dateStr[5]],
     year  |-> 1000 * DigitValue[dateStr[7]] + 100 * DigitValue[dateStr[8]]
               + 10 * DigitValue[dateStr[9]] + DigitValue[dateStr[10]]]

IsLeap(year) ==
    year % 4 = 0 /\ (year % 100 # 0 \/ year % 400 = 0)

DaysBeforeYear(year) ==
    LET y == year - 1
    IN  y * 365 + (y \div 4) - (y \div 100) + (y \div 400)

DaysBeforeMonthTable ==
    <<0, 31, 59, 90, 120, 151, 181, 212, 243, 273, 304, 334>>

DaysBeforeMonth(year, month) ==
    DaysBeforeMonthTable[month]
        + (IF month > 2 /\ IsLeap(year) THEN 1 ELSE 0)

\* Proleptic Gregorian ordinal of a date: 01/01/0001 is day 1.
Ymd2Ord(year, month, day) ==
    DaysBeforeYear(year) + DaysBeforeMonth(year, month) + day

\* Ordinal of the Monday that starts ISO week 1 of a year.
IsoWeek1Monday(year) ==
    LET firstday     == Ymd2Ord(year, 1, 1)
        firstweekday == (firstday + 6) % 7
        week1monday  == firstday - firstweekday
    IN  IF firstweekday > 3 THEN week1monday + 7 ELSE week1monday

\* (isoYearNumber, isoWeekNumber, isoWeekdayNumber) of a date.
IsoCalendar(d) ==
    LET today == Ymd2Ord(d.year, d.month, d.day)
        week  == (today - IsoWeek1Monday(d.year)) \div 7
        wday  == (today - IsoWeek1Monday(d.year)) % 7
    IN  IF week < 0
        THEN <<d.year - 1,
               ((today - IsoWeek1Monday(d.year - 1)) \div 7) + 1,
               ((today - IsoWeek1Monday(d.year - 1)) % 7) + 1>>
        ELSE IF week >= 52 /\ today >= IsoWeek1Monday(d.year + 1)
             THEN <<d.year + 1, 1, wday + 1>>
             ELSE <<d.year, week + 1, wday + 1>>

IsoOfLine(line) == IsoCalendar(ParseDate(line[1]))

-----------------------------------------------------------------------------
(* convertDailyToWeekly.py: the read loop *)

\* The destination file's header line.
weeklyHeaderLine ==
    <<"Date", "Open", "High", "Low", "Close", "Volume", "OpenInt">>

\* Faulty variant: one line more than linesToSkip is skipped.
IsProcessedLate(line) ==
    lineCounter > weeklyLinesToSkip /\ line # BlankLine

\* if i >= linesToSkip and line.strip() != "":
IsProcessed(line) ==
    lineCounter >= weeklyLinesToSkip /\ line # BlankLine

\* The line passes the field-count and date-length checks.
IsWellFormed(line) ==
    Len(line) = numFieldsExpected /\ Len(line[1]) = 10

\* Faulty variant: the row that opens a week does not count towards its
\* volume.
NewWeekVolumeZero(line) ==
    [HasValues |-> TRUE, DateStr |-> line[1],
     Open |-> line[2], High |-> line[3], Low |-> line[4],
     Close |-> line[5], Volume |-> 0, OpenInt |-> line[7],
     IsoYearNumber |-> IsoOfLine(line)[1],
     IsoWeekNumber |-> IsoOfLine(line)[2]]

\* Set (new) values for the 'currentWeek' from a row.
NewWeek(line) ==
    [HasValues |-> TRUE, DateStr |-> line[1],
     Open |-> line[2], High |-> line[3], Low |-> line[4],
     Close |-> line[5], Volume |-> line[6], OpenInt |-> line[7],
     IsoYearNumber |-> IsoOfLine(line)[1],
     IsoWeekNumber |-> IsoOfLine(line)[2]]

Min4(a, b, c, d) ==
    CHOOSE m \in {a, b, c, d} : \A x \in {a, b, c, d} : m <= x
Max4(a, b, c, d) ==
    CHOOSE m \in {a, b, c, d} : \A x \in {a, b, c, d} : m >= x

\* Faulty variant: the volume is overwritten, not added to.
FoldedWeekVolumeOverwritten(week, line) ==
    LET smallestValue == Min4(line[2], line[3], line[4], line[5])
        largestValue  == Max4(line[2], line[3], line[4], line[5])
    IN  [week EXCEPT
            !.Low     = IF smallestValue < @ THEN smallestValue ELSE @,
            !.High    = IF largestValue > @ THEN largestValue ELSE @,
            !.Close   = line[5],
            !.Volume  = line[6],
            !.OpenInt = line[7]]

\* Faulty variant: the open interest is not carried over from the row.
FoldedWeekOpenIntKept(week, line) ==
    LET smallestValue == Min4(line[2], line[3], line[4], line[5])
        largestValue  == Max4(line[2], line[3], line[4], line[5])
    IN  [week EXCEPT
            !.Low     = IF smallestValue < @ THEN smallestValue ELSE @,
            !.High    = IF largestValue > @ THEN largestValue ELSE @,
            !.Close   = line[5],
            !.Volume  = @ + line[6]]

\* Faulty variant: the extremes follow the row's high and low fields only.
FoldedWeekHighLowFields(week, line) ==
    [week EXCEPT
        !.Low     = IF line[4] < @ THEN line[4] ELSE @,
        !.High    = IF line[3] > @ THEN line[3] ELSE @,
        !.Close   = line[5],
        !.Volume  = @ + line[6],
        !.OpenInt = line[7]]

\* Faulty variant: the low of the week stays that of its first row.
FoldedWeekLowKept(week, line) ==
    LET largestValue  == Max4(line[2], line[3], line[4], line[5])
    IN  [week EXCEPT
            !.High    = IF largestValue > @ THEN largestValue ELSE @,
            !.Close   = line[5],
            !.Volume  = @ + line[6],
            !.OpenInt = line[7]]

\* The new date is in the same week as 'currentWeek': update the values.
FoldedWeek(week, line) ==
    LET smallestValue == Min4(line[2], line[3], line[4], line[5])
        largestValue  == Max4(line[2], line[3], line[4], line[5])
    IN  [week EXCEPT
            !.Low     = IF smallestValue < @ THEN smallestValue ELSE @,
            !.High    = IF largestValue > @ THEN largestValue ELSE @,
            !.Close   = line[5],
            !.Volume  = @ + line[6],
            !.OpenInt = line[7]]

\* "{},{},{},{},{},{},{}".format(currentWeekDateStr, ...)
ConvertedLine(week) ==
    <<week.DateStr, week.Open, week.High, week.Low, week.Close,
      week.Volume, week.OpenInt>>

\* Faulty variant: the chain compares week numbers only.
WeekBranchWeekOnly(week, isoYearNumber, isoWeekNumber) ==
    IF isoWeekNumber < week.IsoWeekNumber
    THEN "earlier week"
    ELSE IF isoWeekNumber = week.IsoWeekNumber
    THEN "same week"
    ELSE "new week"

\* Faulty variant: the week numbers are compared before the years.
WeekBranchWeekFirst(week, isoYearNumber, isoWeekNumber) ==
    IF isoWeekNumber < week.IsoWeekNumber
    THEN "earlier week"
    ELSE IF isoYearNumber < week.IsoYearNumber
    THEN "earlier year"
    ELSE IF isoYearNumber = week.IsoYearNumber
            /\ isoWeekNumber = week.IsoWeekNumber
    THEN "same week"
    ELSE "new week"

\* Faulty variant: a week counts as new only within the bucket's year.
WeekBranchSameYearOnly(week, isoYearNumber, isoWeekNumber) ==
    IF isoYearNumber < week.IsoYearNumber
    THEN "earlier year"
    ELSE IF isoYearNumber = week.IsoYearNumber
            /\ isoWeekNumber < week.IsoWeekNumber
    THEN "earlier week"
    ELSE IF isoYearNumber = week.IsoYearNumber
            /\ isoWeekNumber = week.IsoWeekNumber
    THEN "same week"
    ELSE IF isoYearNumber = week.IsoYearNumber
            /\ isoWeekNumber > week.IsoWeekNumber
    THEN "new week"
    ELSE "never"

\* The branch of the week comparison chain that a row takes.
WeekBranch(week, isoYearNumber, isoWeekNumber) ==
    IF isoYearNumber < week.IsoYearNumber
    THEN "earlier year"
    ELSE IF isoYearNumber = week.IsoYearNumber
            /\ isoWeekNumber < week.IsoWeekNumber
    THEN "earlier week"
    ELSE IF isoYearNumber = week.IsoYearNumber
            /\ isoWeekNumber = week.IsoWeekNumber
    THEN "same week"
    ELSE IF (isoYearNumber = week.IsoYearNumber
             /\ isoWeekNumber > week.IsoWeekNumber)
            \/ isoYearNumber > week.IsoYearNumber
    THEN "new week"
    ELSE "never"

BranchOf(line) ==
    WeekBranch(currentWeek, IsoOfLine(line)[1], IsoOfLine(line)[2])

\* The loop is at a row that reaches the week comparison chain.
Compares(line) ==
    IsProcessed(line) /\ IsWellFormed(line) /\ currentWeek.HasValues

\* The loop body does nothing but count the line.
OnlyCounts(line) ==
    IF IsProcessed(line)
    THEN IsWellFormed(line) /\ currentWeek.HasValues
         /\ BranchOf(line) = "never"
    ELSE TRUE

Consume(line) ==
    /\ weeklyPc = "read"
    /\ Len(inputLines) < MaxLines
    /\ line \in LinesAt(Len(inputLines))
    /\ inputLines' = Append(inputLines, line)
    /\ UNCHANGED <<engineVars, streamVars>>

WeeklyInit ==
    /\ EngineIdle
    /\ StreamIdle
    /\ weeklyPc = "read"
    /\ inputLines = << >>
    /\ lineCounter = 0
    /\ currentWeek = InitialWeek
    /\ convertedLines = << >>
    /\ exitMessage = << >>
    /\ outputFile = << >>

\* The texts of the error messages; the date message is followed by dateStr
\* and the order message by the line, the field count message by nothing.
FieldCountError == "Error: Line does not have 7 data fields"
DateLengthError ==
    "Error: dateStr is not the expected number of characters: "
OrderError ==
    "Error: The input file is supposed to be in chronological order!  Failed at line: "

\* A skipped line: the header line or a blank line.
SkipLine(line) ==
    /\ Consume(line)
    /\ OnlyCounts(line)
    /\ lineCounter' = lineCounter + 1
    /\ UNCHANGED <<weeklyPc, currentWeek, convertedLines, exitMessage,
                   outputFile>>

\* Error: Line does not have 7 data fields
FailFieldCount(line) ==
    /\ Consume(line)
    /\ IsProcessed(line)
    /\ Len(line) # numFieldsExpected
    /\ weeklyPc' = "failed"
    /\ exitMessage' = <<FieldCountError>>
    /\ UNCHANGED <<lineCounter, currentWeek, convertedLines, outputFile>>

\* Error: dateStr is not the expected number of characters
FailDateLength(line) ==
    /\ Consume(line)
    /\ IsProcessed(line)
    /\ Len(line) = numFieldsExpected
    /\ Len(line[1]) # 10
    /\ weeklyPc' = "failed"
    /\ exitMessage' = <<DateLengthError, line[1]>>
    /\ UNCHANGED <<lineCounter, currentWeek, convertedLines, outputFile>>

\* if currentWeekHasValues == False: ... continue
OpenFirstWeek(line) ==
    /\ Consume(line)
    /\ IsProcessed(line)
    /\ IsWellFormed(line)
    /\ ~ currentWeek.HasValues
    /\ currentWeek' = NewWeek(line)
    /\ UNCHANGED <<weeklyPc, lineCounter, convertedLines, exitMessage,
                   outputFile>>

\* Faulty variant: the weeks completed so far are written before the exit.
FailOrderWritesPartial(line) ==
    /\ Consume(line)
    /\ Compares(line)
    /\ BranchOf(line) \in {"earlier year", "earlier week"}
    /\ weeklyPc' = "failed"
    /\ exitMessage' = <<OrderError, line>>
    /\ outputFile' = <<weeklyHeaderLine>> \o convertedLines
    /\ UNCHANGED <<lineCounter, currentWeek, convertedLines>>

\* Error: The input file is supposed to be in chronological order!
FailOrder(line) ==
    /\ Consume(line)
    /\ Compares(line)
    /\ BranchOf(line) \in {"earlier year", "earlier week"}
    /\ weeklyPc' = "failed"
    /\ exitMessage' = <<OrderError, line>>
    /\ UNCHANGED <<lineCounter, currentWeek, convertedLines, outputFile>>

\* The new date is in the same week as 'currentWeek'.
FoldSameWeek(line) ==
    /\ Consume(line)
    /\ Compares(line)
    /\ BranchOf(line) = "same week"
    /\ currentWeek' = FoldedWeek(currentWeek, line)
    /\ lineCounter' = lineCounter + 1
    /\ UNCHANGED <<weeklyPc, convertedLines, exitMessage, outputFile>>

\* Faulty variant: the completed week is dropped, not appended.
OpenNewWeekDropsOld(line) ==
    /\ Consume(line)
    /\ Compares(line)
    /\ BranchOf(line) = "new week"
    /\ currentWeek' = NewWeek(line)
    /\ lineCounter' = lineCounter + 1
    /\ UNCHANGED <<weeklyPc, convertedLines, exitMessage, outputFile>>

\* The new date is in a later week: the week has completed.
OpenNewWeek(line) ==
    /\ Consume(line)
    /\ Compares(line)
    /\ BranchOf(line) = "new week"
    /\ convertedLines' = Append(convertedLines, ConvertedLine(currentWeek))
    /\ currentWeek' = NewWeek(line)
    /\ lineCounter' = lineCounter + 1
    /\ UNCHANGED <<weeklyPc, exitMessage, outputFile>>

\* Faulty variant: the last week is never closed out.
ClosedOutForgotten(lines, week) == lines

\* Faulty variant: the bucket is closed out even if it never got a row.
ClosedOutUnconditionally(lines, week) == Append(lines, ConvertedLine(week))

\* Close out the last week as a line.
ClosedOut(lines, week) ==
    IF week.HasValues
    THEN Append(lines, ConvertedLine(week))
    ELSE lines

\* Done with all the lines: close out the last week, insert the header
\* line and write the destination file.
EndOfFile ==
    /\ weeklyPc = "read"
    /\ convertedLines' =
           <<weeklyHeaderLine>> \o ClosedOut(convertedLines, currentWeek)
    /\ outputFile' = convertedLines'
    /\ weeklyPc' = "done"
    /\ UNCHANGED <<inputLines, lineCounter, currentWeek, exitMessage>>
    /\ UNCHANGED <<engineVars, streamVars>>

WeeklyNext ==
    \/ \E line \in LinesAt(Len(inputLines)) : SkipLine(line)
    \/ \E line \in LinesAt(Len(inputLines)) : FailFieldCount(line)
    \/ \E line \in LinesAt(Len(inputLines)) : FailDateLength(line)
    \/ \E line \in LinesAt(Len(inputLines)) : OpenFirstWeek(line)
    \/ \E line \in LinesAt(Len(inputLines)) : FailOrder(line)
    \/ \E line \in LinesAt(Len(inputLines)) : FoldSameWeek(line)
    \/ \E line \in LinesAt(Len(inputLines)) : OpenNewWeek(line)
    \/ EndOfFile

\* The weekly aggregator, from start-up to the written destination file.
SpecWeekly == WeeklyInit /\ [][WeeklyNext]_vars

\* A run of either script: the longitude engine over any input file, or
\* the weekly aggregator.
SpecScripts ==
    (EngineInit \/ WeeklyInit) /\ [][EngineNextAnyInput \/ WeeklyNext]_vars

-----------------------------------------------------------------------------
(* Properties of the longitude engine *)

Abs(x) == IF x < 0 THEN -x ELSE x

\* Cells of a row that come from the input file.
InputWidth == Len(InputHeader)

\* The k-th call site has been executed.
Executed(k) == callIndex > k

\* The column a call site appended, and a column of the input.
DerivedCell(i, k) == listOfDataValues[i][InputWidth + k]
SourceCell(i, column) == listOfDataValues[i][column]

Rows == 1..Len(listOfDataValues)
LaterRows == 2..Len(listOfDataValues)

ColumnSites == {k \in 1..Len(CallSites) : CallSites[k].kind = "column"}
ColumnsSites == {k \in 1..Len(CallSites) : CallSites[k].kind = "columns"}

\* C1: unwrap (doCalculationsForColumn, threshold 330) of a series with
\* values in [0, 360) appends exactly one value per input row, so the output
\* is as long as the input, and every two consecutive output values differ
\* by at most 330 in magnitude.
C1_UnwrapLengthAndBound ==
    /\ engineLine >= linesToSkip =>
           Len(listOfDataValues) = engineLine - linesToSkip
    /\ \A i \in Rows :
           Len(listOfDataValues[i]) = InputWidth + (callIndex - 1)
    /\ \A k \in ColumnSites : Executed(k) =>
           \A i \in LaterRows :
               Abs(DerivedCell(i, k) - DerivedCell(i - 1, k)) <= 330

\* A full-length series has been unwrapped and one of its values was moved.
C1_Witness ==
    /\ Executed(1)
    /\ Len(listOfDataValues) >= 3
    /\ \E i \in Rows :
           DerivedCell(i, 1) # SourceCell(i, CallSites[1].planetColumn)

\* C2 as stated: every adjacent pair of unwrapped values differs by
\* strictly less than 330 in absolute value.
C2_StrictlyLess ==
    \A k \in ColumnSites : Executed(k) =>
        \A i \in LaterRows :
            Abs(DerivedCell(i, k) - DerivedCell(i - 1, k)) < 330

\* C2 as amended: every unwrapped value exceeds its predecessor by at most
\* 330 and falls below it by strictly less than 330.
C2_HalfOpenBound ==
    \A k \in ColumnSites : Executed(k) =>
        \A i \in LaterRows :
            /\ DerivedCell(i, k) - DerivedCell(i - 1, k) <= 330
            /\ DerivedCell(i, k) - DerivedCell(i - 1, k) > -330

\* An adjacent pair of unwrapped values that differs by exactly 330.
C2_Witness ==
    /\ Executed(1)
    /\ \E i \in LaterRows : DerivedCell(i, 1) - DerivedCell(i - 1, 1) = 330

\* C3: every unwrapped value is congruent modulo 360 to the input value of
\* the same row, and the first unwrapped value equals the first input value.
C3_CongruentToInput ==
    \A k \in ColumnSites : Executed(k) =>
        /\ \A i \in Rows :
               (DerivedCell(i, k) - SourceCell(i, CallSites[k].planetColumn))
                   % 360 = 0
        /\ Len(listOfDataValues) >= 1 =>
               DerivedCell(1, k) = SourceCell(1, CallSites[k].planetColumn)

\* A series whose second and third values were both moved down a circle.
C3_Witness ==
    /\ Executed(2)
    /\ Len(listOfDataValues) >= 3
    /\ \A i \in 2..3 :
           DerivedCell(i, 2) < SourceCell(i, CallSites[2].planetColumn)

\* The spec's example column and its unwrapped values.
ExampleRows == << <<"ts", 350>>, <<"ts", 355>>, <<"ts", 2>>, <<"ts", 8>> >>
ExampleUnwrapped ==
    << <<"ts", 350, 350>>, <<"ts", 355, 355>>,
       <<"ts", 2, 362>>, <<"ts", 8, 368>> >>

\* C4: when the raw series follows raw[i] = (raw[i-1] + d) mod 360 with a
\* true daily motion |d| < 30, the unwrapped value moves by exactly d,
\* however many full turns have been accumulated; and the column
\* [350, 355, 2, 8] unwraps to [350, 355, 362, 368].
C4_UnrollsTrueMotion ==
    /\ (trueMotion # << >> /\ lastOutput # << >>) =>
           prevCalculatedValue[1] - lastOutput[1] = trueMotion[1]
    /\ doCalculationsForColumn(ExampleRows, 2) = ExampleUnwrapped

\* A smooth step that wraps after two full turns have been accumulated.
C4_Witness ==
    /\ trueMotion # << >>
    /\ lastOutput # << >>
    /\ prevCalculatedValue[1] - planetLongitude[1] >= 2 * 360
    /\ lastOutput[1] < 2 * 360

\* C5: the combined column starts at faster[0] + 360 - slower[0]; every
\* combined value is faster[i] + 360 - slower[i] shifted by a multiple of
\* 360, hence congruent to faster[i] - slower[i] modulo 360; and adjacent
\* combined values differ by at most 330.
C5_PairwiseCombination ==
    \A k \in ColumnsSites : Executed(k) =>
        LET faster(i) == SourceCell(i, CallSites[k].fasterPlanetColumn)
            slower(i) == SourceCell(i, CallSites[k].slowerPlanetColumn)
        IN  /\ Len(listOfDataValues) >= 1 =>
                   DerivedCell(1, k) = faster(1) + 360 - slower(1)
            /\ \A i \in Rows :
                   (DerivedCell(i, k) - (faster(i) - slower(i))) % 360 = 0
            /\ \A i \in LaterRows :
                   Abs(DerivedCell(i, k) - DerivedCell(i - 1, k)) <= 330

\* A combined value that the adjustment moved by two full circles.
C5_Witness ==
    /\ Executed(3)
    /\ \E i \in LaterRows :
           Abs(DerivedCell(i, 3)
               - (SourceCell(i, CallSites[3].fasterPlanetColumn) + 360
                  - SourceCell(i, CallSites[3].slowerPlanetColumn)))
             >= 2 * 360

\* The columns the k-th call site reads.
SourceColumnsOf(k) ==
    IF CallSites[k].kind = "column"
    THEN {CallSites[k].planetColumn}
    ELSE {CallSites[k].fasterPlanetColumn, CallSites[k].slowerPlanetColumn}

\* Cells of row i that come from the input file: every completed call site
\* has appended one cell to the row.
InputCells(i) == Len(listOfDataValues[i]) - (callIndex - 1)

\* C13: a call site completes, and so the output is written, only if every
\* data row has a numeric cell of the input file at each source column the
\* call site reads: a row without such a cell aborts the run, and no other
\* value is read in place of a missing source cell.
C13_DefectiveRowAborts ==
    enginePc \in {"calc", "done"} =>
        \A k \in 1..(callIndex - 1) : \A i \in Rows :
            \A column \in SourceColumnsOf(k) :
                /\ column <= InputCells(i)
                /\ listOfDataValues[i][column] # NotANumber

\* C15: every call site that completes leaves the number of data rows as
\* it was, appends exactly one cell to each data row and changes no cell the
\* row had before, be it a cell of the input or one an earlier call site
\* derived.
C15_AppendsOneCellPerRow ==
    [][(enginePc = "calc" /\ callIndex' = callIndex + 1) =>
           /\ Len(listOfDataValues') = Len(listOfDataValues)
           /\ \A i \in Rows :
                  /\ Len(listOfDataValues'[i]) = Len(listOfDataValues[i]) + 1
                  /\ SubSeq(listOfDataValues'[i], 1, Len(listOfDataValues[i]))
                         = listOfDataValues[i]]_vars

\* All call sites have completed over three rows, the second one over rows
\* whose first derived cell differs from its source cell.
C15_Witness ==
    /\ enginePc = "calc"
    /\ callIndex > Len(CallSites)
    /\ Len(listOfDataValues) = 3
    /\ \A i \in Rows : Len(listOfDataValues[i]) = InputWidth + Len(CallSites)
    /\ \E i \in Rows : listOfDataValues[i][InputWidth + 1]
                           # listOfDataValues[i][CallSites[1].planetColumn]

\* The k-th call site applied to a table, and whether it raises.
RunSite(rows, k) ==
    IF CallSites[k].kind = "column"
    THEN doCalculationsForColumn(rows, CallSites[k].planetColumn)
    ELSE doCalculationsForColumns(rows, CallSites[k].fasterPlanetColumn,
                                  CallSites[k].slowerPlanetColumn)

SiteRaises(rows, k) ==
    IF CallSites[k].kind = "column"
    THEN ColumnRaises(rows, CallSites[k].planetColumn)
    ELSE ColumnsRaises(rows, CallSites[k].fasterPlanetColumn,
                       CallSites[k].slowerPlanetColumn)

RECURSIVE RunOrder(_, _)
\* The call sites applied to a table one after the other in a given order,
\* up to the first one that raises.
RunOrder(rows, order) ==
    IF order = << >>
    THEN [table |-> rows, raised |-> FALSE]
    ELSE IF SiteRaises(rows, Head(order))
         THEN [table |-> RunSite(rows, Head(order)), raised |-> TRUE]
         ELSE RunOrder(RunSite(rows, Head(order)), Tail(order))

\* The orders in which the call sites can be executed; the script's order.
Orders ==
    {order \in [1..Len(CallSites) -> 1..Len(CallSites)] :
        \A a, b \in 1..Len(CallSites) : a # b => order[a] # order[b]}
ScriptOrder == [k \in 1..Len(CallSites) |-> k]

\* The values of the column that call site k derives when the call sites
\* run in the given order: the cell that the call appended to each row, and
\* no values if the run is aborted.
SeriesOf(rows, order, k) ==
    LET run      == RunOrder(rows, order)
        position == CHOOSE n \in 1..Len(CallSites) : order[n] = k
    IN  IF run.raised
        THEN << >>
        ELSE [i \in 1..Len(rows) |-> run.table[i][Len(rows[i]) + position]]

\* C16: for the table the script has read, executing the call sites in any
\* order yields, for every derived column name, the same sequence of values
\* as executing them in the script's order.
C16_AnyOrderSameSeries ==
    (enginePc = "calc" /\ callIndex = 1) =>
        \A order \in Orders : \A k \in 1..Len(CallSites) :
            SeriesOf(listOfDataValues, order, k)
                = SeriesOf(listOfDataValues, ScriptOrder, k)

RECURSIVE DecrementLoop(_, _)
\* The specified algorithm: while output[i-1] < candidate - threshold,
\* candidate -= 360.
DecrementLoop(output, candidate) ==
    IF output < candidate - 330
    THEN DecrementLoop(output, candidate - 360)
    ELSE candidate

RECURSIVE IncrementLoop(_, _)
\* The specified algorithm: while output[i-1] >= candidate + threshold,
\* candidate += 360.
IncrementLoop(output, candidate) ==
    IF output >= candidate + 330
    THEN IncrementLoop(output, candidate + 360)
    ELSE candidate

\* The specified algorithm runs both loops, one after the other.
BothLoops(output, candidate) ==
    IncrementLoop(output, DecrementLoop(output, candidate))

\* The value a call site adjusts at row i, before the adjustment.
CandidateOf(i, k) ==
    IF CallSites[k].kind = "column"
    THEN SourceCell(i, CallSites[k].planetColumn)
    ELSE SynodicValue(SourceCell(i, CallSites[k].fasterPlanetColumn),
                      SourceCell(i, CallSites[k].slowerPlanetColumn))

\* C19: at every row after the first, the value the code derives by its
\* if / elif choice of one while loop equals the value the specified
\* algorithm yields by running the decrement loop and then the increment
\* loop, whatever the prior output and the candidate; and when the decrement
\* loop changes the candidate the increment loop leaves it alone.
C19_SameAsBothLoops ==
    \A k \in 1..Len(CallSites) : Executed(k) =>
        \A i \in LaterRows :
            LET output    == DerivedCell(i - 1, k)
                candidate == CandidateOf(i, k)
                lowered   == DecrementLoop(output, candidate)
            IN  /\ DerivedCell(i, k) = BothLoops(output, candidate)
                /\ lowered # candidate =>
                       IncrementLoop(output, lowered) = lowered

\* A single-planet value that was raised, and a combined value that was
\* lowered by more than one full circle.
C19_Witness ==
    /\ Executed(3)
    /\ \E k \in ColumnSites : \E i \in LaterRows :
           DerivedCell(i, k) > CandidateOf(i, k)
    /\ \E i \in LaterRows : DerivedCell(i, 3) < CandidateOf(i, 3) - 360

\* The raw cell of the row before the current one, in a smooth column.
PreviousLongitude == (planetLongitude[1] - trueMotion[1]) % Circle

\* C20 as stated: for smooth motion at most one 360-degree step is added
\* or subtracted at every row, so the output is within one full circle of
\* the row's raw value.
C20_AtMostOneStep ==
    prevCalculatedValue # << >> =>
        Abs(prevCalculatedValue[1] - planetLongitude[1]) <= 360

\* C20 as amended: for smooth motion the output of a row is its raw value
\* moved by whole 360-degree steps, and the number of steps differs by at
\* most one from the number of steps at the row before.
C20_OneStepMoreOrLess ==
    trueMotion # << >> =>
        /\ (prevCalculatedValue[1] - planetLongitude[1]) % 360 = 0
        /\ Abs((prevCalculatedValue[1] - planetLongitude[1])
               - (lastOutput[1] - PreviousLongitude)) <= 360

\* A row at which two steps were added, after a row with one step.
C20_Witness ==
    /\ trueMotion # << >>
    /\ prevCalculatedValue[1] - planetLongitude[1] = 2 * 360
    /\ lastOutput[1] - PreviousLongitude = 360

\* A table with a single source column that holds, row by row, the
\* candidate faster + 360 - slower of a two-planet call site.
CandidateTable(k) ==
    [i \in Rows |-> <<"ts", CandidateOf(i, k)>>]

\* C21: the column a two-planet call site derives from (faster, slower) is
\* exactly the column doCalculationsForColumn derives from a single column
\* that holds faster[i] + 360 - slower[i].
C21_ColumnsAsColumn ==
    \A k \in ColumnsSites : Executed(k) =>
        \A i \in Rows :
            DerivedCell(i, k)
                = doCalculationsForColumn(CandidateTable(k), 2)[i][3]

\* A combined column of three rows in which the adjustment raised one
\* candidate and lowered another.
C21_Witness ==
    /\ Executed(3)
    /\ Len(listOfDataValues) = 3
    /\ \E i \in LaterRows : DerivedCell(i, 3) > CandidateOf(i, 3)
    /\ \E i \in LaterRows : DerivedCell(i, 3) < CandidateOf(i, 3)

\* C22: whatever finite prior output and candidate a row starts from, the
\* while loop it enters terminates: every row that is begun is appended.
C22_LoopsTerminate == (loopPc # "row") ~> (loopPc = "row")

\* The names appended to the header line: those after the names the input
\* file's header line held, if it had one.
AppendedNames ==
    IF engineLine >= linesToSkip
    THEN SubSeq(headerLine, InputWidth + 1, Len(headerLine))
    ELSE headerLine

\* The rows as they were read from the input file.
InputRows ==
    [i \in Rows |-> SubSeq(listOfDataValues[i], 1, InputWidth)]

\* C26: once the input is read, after any number of call sites, every data
\* row has as many appended cells as the header line has appended names;
\* the k-th appended name is the column name of the k-th call site and the
\* k-th appended cell of a row is the value that call site derives for the
\* row; and the written output is the header line followed by one line per
\* data row read.
C26_HeaderAndRowsAligned ==
    enginePc \in {"calc", "done"} =>
        /\ \A i \in Rows :
               Len(listOfDataValues[i]) - InputWidth = Len(AppendedNames)
        /\ \A k \in 1..Len(AppendedNames) :
               /\ AppendedNames[k] = CallSites[k].columnName
               /\ \A i \in Rows :
                      DerivedCell(i, k)
                          = RunSite(InputRows, k)[i][InputWidth + 1]
        /\ engineLine >= linesToSkip =>
               Len(listOfDataValues) = engineLine - linesToSkip
        /\ outputFileLines # << >> =>
               /\ Len(outputFileLines) = 1 + Len(listOfDataValues)
               /\ outputFileLines[1] = headerLine
               /\ \A i \in Rows : outputFileLines[i + 1] = listOfDataValues[i]

\* A written output of three data rows with all derived columns, the last
\* of them holding a value that was adjusted.
C26_Witness ==
    /\ enginePc = "done"
    /\ Len(outputFileLines) = 4
    /\ Len(outputFileLines[1]) = InputWidth + Len(CallSites)
    /\ \E i \in Rows :
           outputFileLines[i + 1][InputWidth + 3] # CandidateOf(i, 3)

\* C27: doCalculationsForColumn applied to a column that is itself the
\* output of doCalculationsForColumn derives that same column again.
C27_UnwrapIdempotent ==
    \A k \in ColumnSites : Executed(k) =>
        \A i \in Rows :
            doCalculationsForColumn(listOfDataValues, InputWidth + k)
                [i][Len(listOfDataValues[i]) + 1] = DerivedCell(i, k)

\* An unwrapped column of three rows with a value below 0 and a value
\* of 360 or more.
C27_Witness ==
    /\ Len(listOfDataValues) = 3
    /\ \E k \in ColumnSites :
           /\ Executed(k)
           /\ \E i \in Rows : DerivedCell(i, k) < 0
    /\ \E k \in ColumnSites :
           /\ Executed(k)
           /\ \E i \in Rows : DerivedCell(i, k) >= 360

-----------------------------------------------------------------------------
(* Properties of the weekly aggregator *)

\* The daily rows of the input: the non-blank lines after the header line.
DailyRows ==
    IF inputLines = << >>
    THEN << >>
    ELSE SelectSeq(Tail(inputLines), LAMBDA l : l # BlankLine)

\* The weekly rows of the written file: its lines after the header line.
WeeklyRows == SubSeq(outputFile, 2, Len(outputFile))

Written == weeklyPc = "done"

\* The run stopped with the message about chronological order.
OrderErrorReported == exitMessage # << >> /\ exitMessage[1] = OrderError

\* Calendar day number and ISO (year, week) key of a row.
DayOf(row) ==
    Ymd2Ord(ParseDate(row[1]).year, ParseDate(row[1]).month,
            ParseDate(row[1]).day)
KeyOf(row) == <<IsoOfLine(row)[1], IsoOfLine(row)[2]>>

\* Every row has seven fields and a date of ten characters, and the dates
\* never go back.
Chronological(rows) ==
    /\ \A i \in 1..Len(rows) : Len(rows[i]) = 7 /\ Len(rows[i][1]) = 10
    /\ \A i, j \in 1..Len(rows) : i < j => DayOf(rows[i]) <= DayOf(rows[j])

KeysIn(rows) == {KeyOf(rows[i]) : i \in 1..Len(rows)}

\* The daily rows that belong to the week of a weekly row.
RowsOfWeek(weekly) ==
    SelectSeq(DailyRows, LAMBDA r : KeyOf(r) = KeyOf(weekly))

RECURSIVE FirstEncounters(_, _)
\* The distinct keys of the rows, in the order of their first occurrence.
FirstEncounters(rows, seen) ==
    IF rows = << >>
    THEN << >>
    ELSE IF KeyOf(Head(rows)) \in seen
         THEN FirstEncounters(Tail(rows), seen)
         ELSE <<KeyOf(Head(rows))>>
                  \o FirstEncounters(Tail(rows), seen \cup {KeyOf(Head(rows))})

RECURSIVE VolumeOf(_)
VolumeOf(rows) ==
    IF rows = << >> THEN 0 ELSE Head(rows)[6] + VolumeOf(Tail(rows))

PricesOf(rows) ==
    UNION {{rows[i][2], rows[i][3], rows[i][4], rows[i][5]} :
               i \in 1..Len(rows)}

\* C6: for every chronologically ordered daily input the run completes and
\* the number of weekly rows equals the number of distinct ISO (year, week)
\* pairs among the input rows.
C6_OneRowPerIsoWeek ==
    Chronological(DailyRows) =>
        /\ Written => Len(WeeklyRows) = Cardinality(KeysIn(DailyRows))
        /\ ~ OrderErrorReported

\* Three chronological rows in two weeks, one week spanning the new year.
C6_Witness ==
    /\ Written
    /\ Chronological(DailyRows)
    /\ Len(DailyRows) = 3
    /\ Len(WeeklyRows) = 2
    /\ \E i, j \in 1..3 :
           /\ KeyOf(DailyRows[i]) = KeyOf(DailyRows[j])
           /\ ParseDate(DailyRows[i][1]).year
                  # ParseDate(DailyRows[j][1]).year

\* C7: every weekly row's high is the maximum, and its low the minimum, of
\* the open, high, low and close of every daily row of that week, the row
\* that opened the week included.
C7_ExtremesOfAllPrices ==
    Written =>
        \A k \in 1..Len(WeeklyRows) :
            LET prices == PricesOf(RowsOfWeek(WeeklyRows[k]))
            IN  /\ WeeklyRows[k][3] \in prices
                /\ WeeklyRows[k][4] \in prices
                /\ \A x \in prices :
                       WeeklyRows[k][4] <= x /\ x <= WeeklyRows[k][3]

\* C8: every weekly row's volume is the sum of the volumes of exactly the
\* daily rows of that week.
C8_VolumeIsSum ==
    Written =>
        \A k \in 1..Len(WeeklyRows) :
            WeeklyRows[k][6] = VolumeOf(RowsOfWeek(WeeklyRows[k]))

\* A week of two rows followed by a week of one row.
C8_Witness ==
    /\ Written
    /\ Len(WeeklyRows) = 2
    /\ Len(RowsOfWeek(WeeklyRows[1])) = 2
    /\ Len(RowsOfWeek(WeeklyRows[2])) = 1

\* C9: every weekly row takes its date and open from the first daily row of
\* its week and its close and openInterest from the last, for weeks of any
\* number of rows.
C9_FirstAndLastRow ==
    Written =>
        \A k \in 1..Len(WeeklyRows) :
            LET rows  == RowsOfWeek(WeeklyRows[k])
                first == rows[1]
                last  == rows[Len(rows)]
            IN  /\ rows # << >>
                /\ WeeklyRows[k][1] = first[1]
                /\ WeeklyRows[k][2] = first[2]
                /\ WeeklyRows[k][5] = last[5]
                /\ WeeklyRows[k][7] = last[7]

\* A week of one row, and a week of several rows whose first and last rows
\* differ in date, open, close and openInterest.
C9_Witness ==
    /\ Written
    /\ \E k \in 1..Len(WeeklyRows) : Len(RowsOfWeek(WeeklyRows[k])) = 1
    /\ \E k \in 1..Len(WeeklyRows) :
           LET rows == RowsOfWeek(WeeklyRows[k])
           IN  /\ Len(rows) >= 2
               /\ rows[1][1] # rows[Len(rows)][1]
               /\ rows[1][2] # rows[Len(rows)][2]
               /\ rows[1][5] # rows[Len(rows)][5]
               /\ rows[1][7] # rows[Len(rows)][7]

\* The keys of the finished weekly lines, then of the open week if any.
KeysProduced ==
    LET finished == IF Written THEN WeeklyRows ELSE convertedLines
        open     == IF currentWeek.HasValues /\ ~ Written
                    THEN <<<<currentWeek.IsoYearNumber,
                             currentWeek.IsoWeekNumber>>>>
                    ELSE << >>
    IN  [k \in 1..Len(finished) |-> KeyOf(finished[k])] \o open

\* C10: weekly rows are produced in the order in which their ISO (year,
\* week) keys are first encountered in the input, one row per key.
C10_OrderOfFirstEncounter ==
    weeklyPc \in {"read", "done"} =>
        KeysProduced = FirstEncounters(DailyRows, {})

\* Three weeks written in the order 2008-W52, 2009-W01, 2009-W02.
C10_Witness ==
    /\ Written
    /\ Len(WeeklyRows) = 3
    /\ KeyOf(WeeklyRows[1])[1] < KeyOf(WeeklyRows[2])[1]
    /\ KeyOf(WeeklyRows[1])[2] > KeyOf(WeeklyRows[2])[2]

\* The daily rows that have seven fields and a date of ten characters.
DatedRows ==
    SelectSeq(DailyRows, LAMBDA r : Len(r) = 7 /\ Len(r[1]) = 10)

\* Some row's calendar date is earlier than the date of a preceding row.
HasEarlierRow ==
    \E i, j \in 1..Len(DatedRows) :
        i < j /\ DayOf(DatedRows[j]) < DayOf(DatedRows[i])

\* C11: once the run is over, an input that contains a row whose calendar
\* date is earlier than the date of a preceding row has made the run fail with
\* the message about chronological order, and no output file was written.
C11_EarlierDateFails ==
    (weeklyPc \in {"done", "failed"} /\ HasEarlierRow) =>
        /\ weeklyPc = "failed"
        /\ OrderErrorReported
        /\ outputFile = << >>

\* A line that is processed as a data row but has not seven fields or has
\* a date that is not ten characters long.
Malformed(line) ==
    line # BlankLine /\ (Len(line) # 7 \/ Len(line[1]) # 10)

\* The printed message carries the line, or the date field of the line.
ReportIdentifies(line) ==
    /\ Len(exitMessage) = 2
    /\ exitMessage[1] = DateLengthError => exitMessage[2] = line[1]
    /\ exitMessage[1] = OrderError => exitMessage[2] = line

\* C14: a data row whose field count is not 7, or whose date is not exactly
\* 10 characters long, is the last line the run reads: the run has failed
\* there with a message that identifies the line, and no output is written.
C14_MalformedRowStops ==
    \A j \in 2..Len(inputLines) :
        Malformed(inputLines[j]) =>
            /\ j = Len(inputLines)
            /\ weeklyPc = "failed"
            /\ ReportIdentifies(inputLines[j])
            /\ outputFile = << >>

\* C17: an input without data rows after its header line never makes the
\* run fail, and the file the run writes holds the header line and no weekly
\* row.
C17_HeaderOnlyInput ==
    DailyRows = << >> =>
        /\ weeklyPc # "failed"
        /\ Written => outputFile = <<weeklyHeaderLine>>

\* The output written for an input of a header line and two blank lines.
C17_Witness ==
    /\ Written
    /\ Len(inputLines) = 3
    /\ inputLines[1] = HeaderText
    /\ DailyRows = << >>
    /\ outputFile = <<weeklyHeaderLine>>

\* The line read last, and what shows that it was processed as a data row:
\* either the run failed on it, or it is the latest row of the open week.
LastLine == inputLines[Len(inputLines)]
LastLineProcessed ==
    \/ weeklyPc = "failed"
    \/ /\ currentWeek.HasValues
       /\ currentWeek.Close = LastLine[5]
       /\ currentWeek.OpenInt = LastLine[7]

\* The header line: the line of column names, the first non-blank line of
\* the file.
IsHeaderLine(j) ==
    /\ inputLines[j] = HeaderText
    /\ \A h \in 1..(j - 1) : inputLines[h] = BlankLine

\* C18 as stated: whatever blank lines the file contains, the header line
\* is never parsed as a PriceBar row, and every non-blank line after it is
\* processed as a data row.
C18_HeaderLineSkipped ==
    Len(inputLines) >= 1 =>
        /\ IsHeaderLine(Len(inputLines)) =>
               weeklyPc # "failed" /\ ~ currentWeek.HasValues
        /\ (/\ LastLine # BlankLine
            /\ \E j \in 1..(Len(inputLines) - 1) : IsHeaderLine(j)) =>
               LastLineProcessed

\* C18 as amended: the first line of the file is never parsed as a PriceBar
\* row, and every non-blank line after the first line is processed as a data
\* row, whatever blank lines the file contains.
C18_FirstLineSkipped ==
    Len(inputLines) >= 1 =>
        IF Len(inputLines) = 1
        THEN weeklyPc # "failed" /\ ~ currentWeek.HasValues
        ELSE LastLine # BlankLine => LastLineProcessed

\* Two data rows processed after a header line and a blank line; the line
\* counter is one behind, the first data row having skipped its increment.
C18_Witness ==
    /\ Len(inputLines) = 4
    /\ inputLines[1] = HeaderText
    /\ inputLines[2] = BlankLine
    /\ lineCounter = 3
    /\ weeklyPc = "read"
    /\ IsWellFormed(inputLines[3])
    /\ IsWellFormed(inputLines[4])
    /\ LastLineProcessed
    /\ currentWeek.DateStr = inputLines[3][1]
    /\ inputLines[3][1] # inputLines[4][1]

\* The weekly lines emitted so far (the header line is inserted in front
\* of them when the run completes), and the key of a bucket.
Emitted == IF Written THEN Tail(convertedLines) ELSE convertedLines
BucketKey(week) == <<week.IsoYearNumber, week.IsoWeekNumber>>
KeyLater(a, b) == a[1] > b[1] \/ (a[1] = b[1] /\ a[2] > b[2])

\* C23: a step emits at most one line, the line of the one open bucket, and
\* it does so exactly when the bucket ends: when a row of a strictly later
\* week arrives, from which the next bucket is opened in the same step, or
\* when the input ends.  A bucket that ends is always emitted, and the end
\* of the input emits nothing when no row was consumed.
C23_BucketEmittedOnce ==
    [][/\ Emitted' # Emitted =>
              /\ currentWeek.HasValues
              /\ Emitted' = Append(Emitted, ConvertedLine(currentWeek))
              /\ \/ weeklyPc' = "done" /\ currentWeek' = currentWeek
                 \/ /\ weeklyPc' = "read"
                    /\ currentWeek' = NewWeek(inputLines'[Len(inputLines')])
                    /\ KeyLater(BucketKey(currentWeek'),
                                BucketKey(currentWeek))
       /\ (/\ currentWeek.HasValues
           /\ \/ weeklyPc' = "done"
              \/ BucketKey(currentWeek') # BucketKey(currentWeek)) =>
              Emitted' = Append(Emitted, ConvertedLine(currentWeek))
       /\ (~ currentWeek.HasValues /\ weeklyPc' = "done") =>
              Emitted' = << >>]_vars

\* A written file of two weeks: the first emitted when the second week's
\* first row arrived, the second, of two rows, at the end of the input.
C23_Witness ==
    /\ Written
    /\ Len(DailyRows) = 3
    /\ Len(WeeklyRows) = 2
    /\ Len(RowsOfWeek(WeeklyRows[1])) = 1
    /\ Len(RowsOfWeek(WeeklyRows[2])) = 2

MaxOf(S) == CHOOSE m \in S : \A x \in S : m >= x
MinOf(S) == CHOOSE m \in S : \A x \in S : m <= x

\* The step reads a data row of the week of the open bucket.
ReadsSameWeekRow ==
    /\ weeklyPc = "read"
    /\ Len(inputLines') = Len(inputLines) + 1
    /\ lineCounter >= weeklyLinesToSkip
    /\ currentWeek.HasValues
    /\ inputLines'[Len(inputLines')] # BlankLine
    /\ IsWellFormed(inputLines'[Len(inputLines')])
    /\ KeyOf(inputLines'[Len(inputLines')]) = BucketKey(currentWeek)

\* C24: folding a row of the open bucket's week sets the bucket's high and
\* low to the maximum and minimum of the former extremum and the row's
\* open, high, low and close, overwrites close and openInterest, adds the
\* row's volume to the volume, leaves the week key, the anchor date and the
\* open as they were, and emits no row.
C24_FoldChangesOnlyFive ==
    [][ReadsSameWeekRow =>
           LET row == inputLines'[Len(inputLines')]
           IN  /\ currentWeek'.High =
                      MaxOf({currentWeek.High, row[2], row[3], row[4], row[5]})
               /\ currentWeek'.Low =
                      MinOf({currentWeek.Low, row[2], row[3], row[4], row[5]})
               /\ currentWeek'.Close = row[5]
               /\ currentWeek'.OpenInt = row[7]
               /\ currentWeek'.Volume = currentWeek.Volume + row[6]
               /\ BucketKey(currentWeek') = BucketKey(currentWeek)
               /\ currentWeek'.DateStr = currentWeek.DateStr
               /\ currentWeek'.Open = currentWeek.Open
               /\ currentWeek'.HasValues
               /\ UNCHANGED <<convertedLines, outputFile, weeklyPc,
                              exitMessage>>]_vars

\* A bucket into which a row was folded whose open became the high and
\* whose close became the low.
C24_Witness ==
    /\ weeklyPc = "read"
    /\ currentWeek.HasValues
    /\ Len(DatedRows) >= 2
    /\ IsWellFormed(LastLine)
    /\ currentWeek.DateStr # LastLine[1]
    /\ currentWeek.High = LastLine[2]
    /\ currentWeek.High > LastLine[3]
    /\ currentWeek.Low = LastLine[5]
    /\ currentWeek.Low < LastLine[4]
    /\ currentWeek.OpenInt = LastLine[7]

\* The step reads a well-formed data row while a bucket is open.
ReadsComparedRow ==
    /\ weeklyPc = "read"
    /\ Len(inputLines') = Len(inputLines) + 1
    /\ lineCounter >= weeklyLinesToSkip
    /\ currentWeek.HasValues
    /\ inputLines'[Len(inputLines')] # BlankLine
    /\ IsWellFormed(inputLines'[Len(inputLines')])

\* C25: keys are compared as (ISO year, ISO week) pairs, the year first.  A
\* row whose key is earlier than the open bucket's key makes the run fail at
\* that row with the order message; a row whose key is later, be its week
\* number smaller in a larger year, has the bucket emitted and a new bucket
\* opened from the row, and is no error.
C25_KeysComparedYearFirst ==
    [][ReadsComparedRow =>
           LET row == inputLines'[Len(inputLines')]
           IN  /\ KeyLater(BucketKey(currentWeek), KeyOf(row)) =>
                      /\ weeklyPc' = "failed"
                      /\ exitMessage' = <<OrderError, row>>
                      /\ UNCHANGED <<currentWeek, convertedLines, outputFile>>
               /\ KeyLater(KeyOf(row), BucketKey(currentWeek)) =>
                      /\ weeklyPc' = "read"
                      /\ exitMessage' = << >>
                      /\ convertedLines' =
                             Append(convertedLines, ConvertedLine(currentWeek))
                      /\ BucketKey(currentWeek') = KeyOf(row)
                      /\ currentWeek'.DateStr = row[1]]_vars

\* A bucket of week 1 of 2009 was opened after week 52 of 2008 had been
\* emitted, and then a row of 2008 made the run fail.
C25_Witness ==
    /\ weeklyPc = "failed"
    /\ OrderErrorReported
    /\ Len(convertedLines) = 1
    /\ KeyOf(convertedLines[1])[2] > currentWeek.IsoWeekNumber
    /\ KeyOf(convertedLines[1])[1] < currentWeek.IsoYearNumber
    /\ KeyOf(LastLine)[1] < currentWeek.IsoYearNumber

\* C28: for every successfully processed input the volumes of the weekly
\* rows add up to the volumes of the daily rows, and each weekly row carries
\* the volume of the daily rows of its own week.
C28_VolumeConserved ==
    Written =>
        /\ VolumeOf(WeeklyRows) = VolumeOf(DailyRows)
        /\ \A w \in 1..Len(WeeklyRows) :
               WeeklyRows[w][6] = VolumeOf(RowsOfWeek(WeeklyRows[w]))
        /\ \A r \in 1..Len(DailyRows) :
               Cardinality({w \in 1..Len(WeeklyRows) :
                               KeyOf(WeeklyRows[w]) = KeyOf(DailyRows[r])}) = 1

\* A written file of two weekly rows made from three daily rows.
C28_Witness ==
    /\ Written
    /\ Len(DailyRows) = 3
    /\ Len(WeeklyRows) = 2

\* The cases of a row's key against the bucket's key that hold.
CasesOf(line) ==
    LET key == KeyOf(line)
        bucket == BucketKey(currentWeek)
    IN  {c \in {"earlier year", "earlier week", "same week", "new week"} :
            CASE c = "earlier year" -> key[1] < bucket[1]
              [] c = "earlier week" -> key[1] = bucket[1] /\ key[2] < bucket[2]
              [] c = "same week"    -> key = bucket
              [] c = "new week"     -> \/ key[1] > bucket[1]
                                       \/ key[1] = bucket[1] /\ key[2] > bucket[2]}

\* C29: for every data row after the first, exactly one of the cases
\* earlier year, same year and earlier week, same week, later week applies,
\* and the chain takes that case's branch: its final else is never reached.
C29_FinalElseUnreachable ==
    weeklyPc = "read" =>
        \A line \in LinesAt(Len(inputLines)) :
            Compares(line) =>
                /\ BranchOf(line) # "never"
                /\ CasesOf(line) = {BranchOf(line)}

\* Rows after the first have gone through the chain: a week of 2008 was
\* completed and the bucket holds a week of 2009 with two rows folded in.
C29_Witness ==
    /\ weeklyPc = "read"
    /\ Len(convertedLines) = 1
    /\ KeyOf(convertedLines[1])[1] = 2008
    /\ currentWeek.HasValues
    /\ currentWeek.IsoYearNumber = 2009
    /\ Len(RowsOfWeek(ConvertedLine(currentWeek))) = 2

\* low <= open <= high and low <= close <= high in a row.
Consistent(row) ==
    /\ row[4] <= row[2] /\ row[2] <= row[3]
    /\ row[4] <= row[5] /\ row[5] <= row[3]

\* C30: if every daily row has low <= open <= high and low <= close <= high
\* then so has every emitted weekly row, its high is the maximum daily high
\* and its low the minimum daily low of its week.
C30_WeeklyRowsConsistent ==
    (/\ weeklyPc # "failed"
     /\ \A r \in 1..Len(DailyRows) : Consistent(DailyRows[r]))
    => \A w \in 1..Len(Emitted) :
           LET days == RowsOfWeek(Emitted[w])
           IN  /\ Consistent(Emitted[w])
               /\ Emitted[w][3] = MaxOf({days[d][3] : d \in 1..Len(days)})
               /\ Emitted[w][4] = MinOf({days[d][4] : d \in 1..Len(days)})

\* A written weekly row of two consistent daily rows whose low is not the
\* low of the first of them.
C30_Witness ==
    /\ Written
    /\ \A r \in 1..Len(DailyRows) : Consistent(DailyRows[r])
    /\ \E w \in 1..Len(WeeklyRows) :
           LET days == RowsOfWeek(WeeklyRows[w])
           IN  /\ Len(days) = 2
               /\ WeeklyRows[w][4] < days[1][4]

-----------------------------------------------------------------------------
(* Properties of both scripts *)

\* C12: in both scripts the output file is written only once the whole input
\* has been read, parsed and transformed without error, and then in full; a
\* run that fails while reading, parsing or transforming leaves no output
\* file, new or partial.
C12_WriteOnlyAfterSuccess ==
    /\ outputFile # << >> =>
           /\ weeklyPc = "done"
           /\ exitMessage = << >>
           /\ outputFile = convertedLines
    /\ weeklyPc = "failed" => outputFile = << >>
    /\ outputFileLines # << >> =>
           /\ enginePc = "done"
           /\ callIndex > Len(CallSites)
           /\ outputFileLines = <<headerLine>> \o listOfDataValues
    /\ enginePc \in {"read", "calc", "crashed"} => outputFileLines = << >>

\* The aggregator failed on a row after it had completed a week.
C12_Witness ==
    /\ weeklyPc = "failed"
    /\ convertedLines # << >>
    /\ outputFile = << >>

=============================================================================
